---------------------------- MODULE Spec2Model ----------------------------
(***************************************************************************)
(* A model of openstack.user_preference.UserPreference (the preference     *)
(* store) and of openstack.providers (ProviderMeta, the provider classes   *)
(* and MultiProvider).                                                     *)
(*                                                                         *)
(* Python's None is modelled by the string "None".  A Python object is     *)
(* modelled by an identifier and a heap that maps the identifier to the    *)
(* object's fields, so that two references to one object stay one object.  *)
(***************************************************************************)
EXTENDS Integers, Sequences, FiniteSets, TLC

VARIABLES
    heap,           \* object id -> fields of a service descriptor
    services,       \* UserPreference._services: service_type -> object id
    preferences,    \* UserPreference._preferences: service_type -> object id
    service_names,  \* UserPreference.service_names: sorted list of keys
    last,           \* the call made last: operation, arguments, outcome
    targeted,       \* the service types a setter call has been aimed at
    ncalls,         \* the number of calls made on the store
    entry_maps,     \* pkg_resources' cached entry maps: distribution -> map
    classes,        \* the provider classes defined so far: name -> class
    multi,          \* the MultiProvider of the run, once it is constructed
    lookup          \* the MultiProvider access made last and its outcome

storeVars ==
    <<heap, services, preferences, service_names, last, targeted, ncalls, entry_maps>>

provVars == <<classes, multi, lookup>>

vars == <<storeVars, provVars>>

\* The number of calls a run of the model makes on a store.
MaxCalls == 3

None == "None"
ALL == "*"

-----------------------------------------------------------------------------
(* Small helpers on finite functions and sequences.                        *)

EmptyMap == [k \in {} |-> None]

Range(f) == {f[k] : k \in DOMAIN f}

\* dict.get(key, None)
DictGet(d, key) == IF key \in DOMAIN d THEN d[key] ELSE None

\* d[key] = value
DictSet(d, key, value) ==
    [k \in DOMAIN d \cup {key} |-> IF k = key THEN value ELSE d[k]]

\* d.update(other)
DictUpdate(d, other) ==
    [k \in DOMAIN d \cup DOMAIN other |->
        IF k \in DOMAIN other THEN other[k] ELSE d[k]]

Permutations_(S) ==
    {p \in [1..Cardinality(S) -> S] : \A i, j \in 1..Cardinality(S) : p[i] = p[j] => i = j}

-----------------------------------------------------------------------------
(* The strings the model works with, and Python's order on them.           *)

\* Python compares str values lexicographically; on the service types and
\* entry-point names of the model that order is the order of this list.
StrOrder == <<"compute", "compute_v2", "identity", "network">>

ServiceTypes == {"compute", "identity", "network"}

StrRank(s) == CHOOSE i \in 1..Len(StrOrder) : StrOrder[i] = s

StrLess(a, b) == StrRank(a) < StrRank(b)

RECURSIVE SortedInsert(_, _)
SortedInsert(seq, x) ==
    IF seq = <<>> THEN <<x>>
    ELSE IF StrLess(x, Head(seq)) THEN <<x>> \o seq
    ELSE <<Head(seq)>> \o SortedInsert(Tail(seq), x)

\* sorted(keys)
RECURSIVE sorted(_)
sorted(S) ==
    IF S = {} THEN <<>>
    ELSE LET x == CHOOSE y \in S : TRUE
         IN SortedInsert(sorted(S \ {x}), x)


-----------------------------------------------------------------------------
(* Service descriptors (openstack.auth.service_filter.ServiceFilter and    *)
(* the service classes derived from it).                                   *)

\* The visibility levels a descriptor accepts besides the unset value.
VISIBILITY == {"public", "internal", "admin"}

\* The service classes the entry points of the model resolve to: the
\* service_type each instance carries and the levels its validator accepts.
\* The Acme classes come from a third-party distribution.
ServiceClasses ==
    [ComputeService  |-> [service_type |-> "compute",  levels |-> VISIBILITY],
     IdentityService |-> [service_type |-> "identity", levels |-> VISIBILITY],
     NetworkService  |-> [service_type |-> "network",  levels |-> VISIBILITY],
     AcmeIdentity    |-> [service_type |-> "identity", levels |-> {"public"}],
     AcmeComputeV2   |-> [service_type |-> "compute",  levels |-> VISIBILITY]]

\* cls(): a new descriptor with the constructor's defaults.
NewDescriptor(cls) ==
    [cls          |-> cls,
     service_type |-> ServiceClasses[cls].service_type,
     service_name |-> None,
     region       |-> None,
     version      |-> None,
     visibility   |-> "public"]

\* descriptor.set_visibility(visibility): the unset value is stored as None,
\* a level the class accepts is stored, anything else is rejected.
FilterSetVisibility(d, visibility) ==
    IF visibility = None
    THEN [raised |-> FALSE, d |-> [d EXCEPT !.visibility = None]]
    ELSE IF visibility \in ServiceClasses[d.cls].levels
    THEN [raised |-> FALSE, d |-> [d EXCEPT !.visibility = visibility]]
    ELSE [raised |-> TRUE, d |-> d]

-----------------------------------------------------------------------------
(* Plugin discovery: pkg_resources entry points of the group               *)
(* "openstack.services", per installed distribution.                       *)

SdkDist == "python-openstacksdk"

\* The distributions that are installed.
Dists == {SdkDist, "acme"}

\* The distribution names a caller can pass: the installed ones and one
\* that is not installed.
DistNames == Dists \cup {"ghost"}

\* The entry maps of the group as pkg_resources caches them when the
\* process starts: distribution -> (role -> class).
InitialEntryMaps ==
    [d \in Dists |->
        IF d = SdkDist
        THEN [compute  |-> "ComputeService",
              identity |-> "IdentityService",
              network  |-> "NetworkService"]
        ELSE [identity   |-> "AcmeIdentity",
              compute_v2 |-> "AcmeComputeV2"]]

\* pkg_resources.get_entry_map(dist, "openstack.services"): the cached dict
\* of the distribution itself (not a copy); DistributionNotFound for a
\* distribution that is not installed.
get_entry_map(maps, dist) ==
    IF dist \in DOMAIN maps
    THEN [raised |-> FALSE, map |-> maps[dist]]
    ELSE [raised |-> TRUE, map |-> EmptyMap]

\* pkg_resources.get_entry_info(dist, "openstack.services", name): the entry
\* of the same cached dict, or None.
get_entry_info(maps, dist, name) ==
    LET m == get_entry_map(maps, dist)
    IN  [raised |-> m.raised,
         ep |-> IF m.raised THEN None ELSE DictGet(m.map, name)]

Roles == UNION {DOMAIN InitialEntryMaps[d] : d \in Dists}

\* The values of the provider argument of UserPreference(provider): None,
\* the name of a distribution, or a dict service -> distribution.
ProviderArgs ==
    {[kind |-> "none", dist |-> None, items |-> EmptyMap]}
    \cup {[kind |-> "str", dist |-> d, items |-> EmptyMap] : d \in DistNames}
    \cup {[kind |-> "dict", dist |-> None, items |-> f] :
            f \in UNION {[K -> DistNames] : K \in SUBSET Roles}}

\* Lines 107-114 of __init__: the loop over provider.items(), in the order
\* the dict yields them.  provider_services is the SDK's cached dict, so an
\* assignment to it is an assignment to the cache.
RECURSIVE UpdateItems(_, _, _)
UpdateItems(maps, items, order) ==
    IF order = <<>> THEN [raised |-> FALSE, error |-> None, maps |-> maps]
    ELSE LET service == Head(order)
             info == get_entry_info(maps, items[service], service)
         IN  IF info.raised
             THEN [raised |-> TRUE, error |-> "DistributionNotFound", maps |-> maps]
             ELSE UpdateItems(
                      IF info.ep # None
                      THEN [maps EXCEPT ![SdkDist] = DictSet(@, service, info.ep)]
                      ELSE maps,
                      items, Tail(order))

\* Lines 87-114 of __init__: the entry points the store is built from.
\* They are maps[SdkDist] of the result: the code updates the cached dict
\* of the SDK in place.  A provider that is neither None nor a string is
\* taken for a dict: for a provider class, an instance of one or a
\* MultiProvider, none of which has an attribute items, provider.items()
\* at line 107 raises AttributeError.
ProviderServices(maps, provider, itemOrder) ==
    IF provider.kind = "none" THEN [raised |-> FALSE, error |-> None, maps |-> maps]
    ELSE IF provider.kind = "str"
    THEN LET other == get_entry_map(maps, provider.dist)
         IN  IF other.raised
             THEN [raised |-> TRUE, error |-> "DistributionNotFound", maps |-> maps]
             ELSE [raised |-> FALSE, error |-> None,
                   maps |-> [maps EXCEPT ![SdkDist] = DictUpdate(@, other.map)]]
    ELSE IF provider.kind = "dict"
    THEN UpdateItems(maps, provider.items, itemOrder)
    ELSE [raised |-> TRUE, error |-> "AttributeError", maps |-> maps]

-----------------------------------------------------------------------------
(* The store.  A store value is a record of the heap and the two maps; the *)
(* id of the descriptor an entry point creates is the entry point's role.  *)

EmptyStore ==
    [heap |-> EmptyMap, services |-> EmptyMap, preferences |-> EmptyMap,
     service_names |-> <<>>]

\* The loading as it would be if a descriptor were stored under the name
\* of its entry point.
RECURSIVE LoadBackends_byrole(_, _, _)
LoadBackends_byrole(st, provider_services, order) ==
    IF order = <<>> THEN st
    ELSE LET role == Head(order)
             serv == FilterSetVisibility(NewDescriptor(provider_services[role]), None).d
             st2  == [st EXCEPT !.heap = DictSet(@, role, serv),
                                !.services = DictSet(@, role, role)]
         IN  LoadBackends_byrole(st2, provider_services, Tail(order))

\* Lines 117-120 of __init__: load the backends, in the order the dict of
\* entry points yields them.
RECURSIVE LoadBackends(_, _, _)
LoadBackends(st, provider_services, order) ==
    IF order = <<>> THEN st
    ELSE LET role == Head(order)
             serv == FilterSetVisibility(NewDescriptor(provider_services[role]), None).d
             st2  == [st EXCEPT !.heap = DictSet(@, role, serv),
                                !.services = DictSet(@, serv.service_type, role)]
         IN  LoadBackends(st2, provider_services, Tail(order))

\* __init__ as it would be if service_names were not in ascending order.
UserPreferenceInit_unsorted(maps, provider, itemOrder, order) ==
    LET ps == ProviderServices(maps, provider, itemOrder)
        st == LoadBackends(EmptyStore, ps.maps[SdkDist], order)
        names == sorted(DOMAIN st.services)
    IN  [raised |-> ps.raised, error |-> ps.error, maps |-> ps.maps,
         st |-> [st EXCEPT !.service_names =
                               [i \in 1..Len(names) |-> names[Len(names) + 1 - i]]]]

\* UserPreference.__init__(provider) in a process whose cached entry maps
\* are maps, with the orders of the two dicts as parameters: the store, and
\* the cached entry maps the construction leaves.
UserPreferenceInit(maps, provider, itemOrder, order) ==
    LET ps == ProviderServices(maps, provider, itemOrder)
    IN  IF ps.raised
        THEN [raised |-> TRUE, error |-> ps.error, maps |-> ps.maps, st |-> EmptyStore]
        ELSE LET st == LoadBackends(EmptyStore, ps.maps[SdkDist], order)
             IN  [raised |-> FALSE, error |-> None, maps |-> ps.maps,
                  st |-> [st EXCEPT !.service_names = sorted(DOMAIN st.services)]]

\* The cached entry maps that the constructions of M's processes leave,
\* the failed constructions included.
EntryMapsAfter(M) ==
    {UserPreferenceInit(m, pa[1], pa[2], sorted(DOMAIN m[SdkDist])).maps :
        m \in M,
        pa \in UNION {{<<p, io>> : io \in Permutations_(DOMAIN p.items)} :
                        p \in ProviderArgs}}

\* The cached entry maps a process can have when a store is constructed:
\* those of its start and those any number of earlier constructions left.
RECURSIVE EntryMapsClosure(_)
EntryMapsClosure(M) ==
    LET N == M \cup EntryMapsAfter(M)
    IN  IF N = M THEN M ELSE EntryMapsClosure(N)

ReachableEntryMaps == EntryMapsClosure({InitialEntryMaps})

\* get_preference as it would be if it validated the key as the setters do.
get_preference_validating(st, service) ==
    [raised |-> service \notin DOMAIN st.services,
     serv |-> DictGet(st.preferences, service)]

\* get_preference as it would be if it fell back to the known services.
get_preference_fallback(st, service) ==
    [raised |-> FALSE,
     serv |-> IF service \in DOMAIN st.preferences
              THEN st.preferences[service]
              ELSE DictGet(st.services, service)]

\* UserPreference.get_preference(service): returns the descriptor or None,
\* and raises nothing.
get_preference(st, service) ==
    [raised |-> FALSE, serv |-> DictGet(st.preferences, service)]

\* get_services as it would be if it listed the preferences.
get_services_touched(st, order) ==
    LET keys == SelectSeq(order, LAMBDA k : k \in DOMAIN st.preferences)
    IN  [i \in 1..Len(keys) |-> st.preferences[keys[i]]]

\* UserPreference.get_services(), with the dict order as a parameter: the
\* list of the values of _services.
get_services(st, order) == [i \in 1..Len(order) |-> st.services[order[i]]]

\* _get_service as it would be if it entered the key into _preferences before
\* it checked the descriptor.
_get_service_early(st, service) ==
    LET serv == DictGet(st.services, service)
    IN  [raised |-> serv = None, serv |-> serv,
         st |-> [st EXCEPT !.preferences = DictSet(@, service, serv)]]

\* _get_service as it would be if it kept a record of unknown keys too.
_get_service_lenient(st, service) ==
    LET serv == DictGet(st.services, service)
    IN  IF serv # None
        THEN [raised |-> FALSE, serv |-> serv,
              st |-> [st EXCEPT !.preferences = DictSet(@, service, serv)]]
        ELSE [raised |-> TRUE, serv |-> None,
              st |-> [st EXCEPT !.preferences = DictSet(@, service, None)]]

\* UserPreference._get_service(service): the descriptor of a known service,
\* entered into _preferences; SDKException for any other key.
_get_service(st, service) ==
    LET serv == DictGet(st.services, service)
    IN  IF serv # None
        THEN [raised |-> FALSE, serv |-> serv,
              st |-> [st EXCEPT !.preferences = DictSet(@, service, serv)]]
        ELSE [raised |-> TRUE, serv |-> None, st |-> st]

\* The assignment as it would be if the fields were shared by all descriptors
\* (class attributes) instead of belonging to one.
Assign_shared(st, serv, field, value) ==
    IF field = "visibility"
    THEN LET r == FilterSetVisibility(st.heap[serv], value)
         IN  [raised |-> r.raised,
              st |-> IF r.raised THEN st
                     ELSE [st EXCEPT !.heap =
                             [o \in DOMAIN @ |-> [@[o] EXCEPT !.visibility = r.d.visibility]]]]
    ELSE [raised |-> FALSE,
          st |-> [st EXCEPT !.heap = [o \in DOMAIN @ |-> [@[o] EXCEPT ![field] = value]]]]

\* The assignment as it would be if a rejected value were ignored.
Assign_swallow(st, serv, field, value) ==
    IF field = "visibility"
    THEN LET r == FilterSetVisibility(st.heap[serv], value)
         IN  [raised |-> FALSE, st |-> [st EXCEPT !.heap[serv] = r.d]]
    ELSE [raised |-> FALSE, st |-> [st EXCEPT !.heap[serv][field] = value]]

\* The statement of a setter's loop body after _get_service returned serv:
\* an attribute assignment, or the descriptor's set_visibility.
Assign(st, serv, field, value) ==
    IF field = "visibility"
    THEN LET r == FilterSetVisibility(st.heap[serv], value)
         IN  [raised |-> r.raised, st |-> [st EXCEPT !.heap[serv] = r.d]]
    ELSE [raised |-> FALSE, st |-> [st EXCEPT !.heap[serv][field] = value]]

\* for service in services: self._get_service(service).<field> = value
\* An exception ends the loop and leaves what was done before it.  The
\* result lists, in visited, the keys the loop body ran for, in order.
RECURSIVE ForEachService(_, _, _, _)
ForEachService(st, names, field, value) ==
    IF names = <<>> THEN [result |-> "ok", st |-> st, visited |-> <<>>]
    ELSE LET g == _get_service(st, Head(names))
         IN  IF g.raised
             THEN [result |-> "SDKException", st |-> g.st, visited |-> <<Head(names)>>]
             ELSE LET a == Assign(g.st, g.serv, field, value)
                  IN  IF a.raised
                      THEN [result |-> "ValidationError", st |-> a.st,
                            visited |-> <<Head(names)>>]
                      ELSE LET rest == ForEachService(a.st, Tail(names), field, value)
                           IN  [rest EXCEPT !.visited = <<Head(names)>> \o @]

Reverse(seq) == [i \in 1..Len(seq) |-> seq[Len(seq) + 1 - i]]

\* The selector as it would be if the wildcard ran over the names from the
\* last to the first.
Expand_reversed(st, service) ==
    IF service = ALL THEN Reverse(st.service_names) ELSE <<service>>

\* if service == self.ALL: services = self.service_names
\* else: services = [service]
Expand(st, service) == IF service = ALL THEN st.service_names ELSE <<service>>

\* set_name as it would be without the expansion of the wildcard.
set_name_single(st, service, name) ==
    ForEachService(st, <<service>>, "service_name", name)

\* set_name as it would be if None meant "leave the service alone".
set_name_skip_none(st, service, name) ==
    IF name = None THEN [result |-> "ok", st |-> st, visited |-> <<>>]
    ELSE ForEachService(st, Expand(st, service), "service_name", name)

set_name(st, service, name) ==
    ForEachService(st, Expand(st, service), "service_name", name)

set_region(st, service, region) ==
    ForEachService(st, Expand(st, service), "region", region)

\* set_version as it would be if it kept a version that was set before.
set_version_unset_only(st, service, version) ==
    LET r == ForEachService(st, Expand(st, service), "version", version)
    IN  [r EXCEPT !.st.heap =
            [o \in DOMAIN @ |->
                IF st.heap[o].version = None THEN @[o]
                ELSE [@[o] EXCEPT !.version = st.heap[o].version]]]

set_version(st, service, version) ==
    ForEachService(st, Expand(st, service), "version", version)

set_visibility(st, service, visibility) ==
    ForEachService(st, Expand(st, service), "visibility", visibility)

-----------------------------------------------------------------------------
(* openstack.providers: provider classes, their metaclass, MultiProvider.  *)
(* A class is a record of its bases, the attributes of its body and the    *)
(* plugin_names the metaclass gave it; single inheritance only.  The       *)
(* class's __name__ is left out: nothing in the module reads it.           *)

\* The subclasses of BaseAuthPlugin: discoverable.Auth, v2.Auth, v3.Auth.
AuthPlugins == {"Auth", "AuthV2", "AuthV3"}

\* inspect.isclass(value) and
\* issubclass(value, (BaseAuthPlugin, ServiceFilter))
IsPlugin(value) == value \in AuthPlugins \cup DOMAIN ServiceClasses

\* getattr(cls, name, None) on a class: the body of the class, then its
\* bases.
RECURSIVE getattr(_, _, _)
getattr(reg, cls, name) ==
    IF cls = "object" THEN None
    ELSE IF name \in DOMAIN reg[cls].attrs THEN reg[cls].attrs[name]
    ELSE IF reg[cls].bases = <<>> THEN None
    ELSE getattr(reg, reg[cls].bases[1], name)

\* getattr(base, "plugin_names", set())
BasePluginNames(reg, base) ==
    IF base = "object" THEN {} ELSE reg[base].plugin_names

\* ProviderMeta.__new__(cls, name, bases, attrs): the new class.
ProviderMetaNew(reg, bases, attrs) ==
    LET from_bases == UNION {BasePluginNames(reg, bases[i]) : i \in 1..Len(bases)}
        from_attrs == {n \in DOMAIN attrs : IsPlugin(attrs[n])}
    IN  [bases |-> bases, attrs |-> attrs,
         plugin_names |-> from_bases \cup from_attrs]

\* The roles of BaseProvider the model keeps, of the ten of the source.
BaseProviderAttrs ==
    [auth     |-> "Auth",
     compute  |-> "ComputeService",
     identity |-> "IdentityService",
     network  |-> "NetworkService"]

\* The classes the module defines: BaseProvider, Identity, IdentityV2,
\* IdentityV3, each made by the metaclass.
BuiltinClasses ==
    LET r0 == EmptyMap
        r1 == DictSet(r0, "BaseProvider", ProviderMetaNew(r0, <<>>, BaseProviderAttrs))
        r2 == DictSet(r1, "Identity", ProviderMetaNew(r1, <<"BaseProvider">>, EmptyMap))
        r3 == DictSet(r2, "IdentityV2",
                      ProviderMetaNew(r2, <<"BaseProvider">>, [auth |-> "AuthV2"]))
    IN  DictSet(r3, "IdentityV3",
                ProviderMetaNew(r3, <<"BaseProvider">>, [auth |-> "AuthV3"]))

\* MultiProvider.__getattr__ as it would be if a later member overrode an
\* earlier one.
RECURSIVE MultiProviderGetAttr_last(_, _, _)
MultiProviderGetAttr_last(reg, providers, name) ==
    IF providers = <<>> THEN [raised |-> TRUE, item |-> None]
    ELSE LET item == getattr(reg, providers[Len(providers)], name)
         IN  IF item # None THEN [raised |-> FALSE, item |-> item]
             ELSE MultiProviderGetAttr_last(
                      reg, SubSeq(providers, 1, Len(providers) - 1), name)

\* MultiProvider.__getattr__(name): the first item that is not None, or
\* AttributeError.
RECURSIVE MultiProviderGetAttr(_, _, _)
MultiProviderGetAttr(reg, providers, name) ==
    IF providers = <<>> THEN [raised |-> TRUE, item |-> None]
    ELSE LET item == getattr(reg, Head(providers), name)
         IN  IF item # None THEN [raised |-> FALSE, item |-> item]
             ELSE MultiProviderGetAttr(reg, Tail(providers), name)

\* plugin_names as it would be if it kept the names of the first member.
MultiProviderPluginNames_first(reg, providers) ==
    IF providers = <<>> THEN {} ELSE reg[providers[1]].plugin_names

\* for provider in self.providers: all_names |= provider.plugin_names
RECURSIVE AllNames(_, _, _)
AllNames(reg, providers, all_names) ==
    IF providers = <<>> THEN all_names
    ELSE AllNames(reg, Tail(providers), all_names \cup reg[Head(providers)].plugin_names)

\* MultiProvider.plugin_names
MultiProviderPluginNames(reg, providers) == AllNames(reg, providers, {})

-----------------------------------------------------------------------------
(* The state machine of one store.                                         *)

\* The store as one value.
Store ==
    [heap |-> heap, services |-> services, preferences |-> preferences,
     service_names |-> service_names]

\* The arguments the calls are made with.
Selectors == ServiceTypes \cup {ALL, "bogus"}

Values == {None, "x"}

VisibilityArgs == {None, "public", "internal", "invalid"}

\* No MultiProvider has been constructed.
NoMultiProvider == [made |-> FALSE, providers |-> <<>>]

\* No MultiProvider has been accessed.
NoLookup ==
    [op |-> "none", name |-> None, raised |-> FALSE, item |-> None, names |-> {}]

Init ==
    /\ classes = BuiltinClasses
    /\ multi = NoMultiProvider
    /\ lookup = NoLookup
    /\ \E maps \in ReachableEntryMaps, provider \in ProviderArgs :
        \E itemOrder \in Permutations_(DOMAIN provider.items) :
            \E ps \in {ProviderServices(maps, provider, itemOrder)} :
                /\ ~ps.raised
                /\ \E order \in Permutations_(DOMAIN ps.maps[SdkDist]) :
                     \E init \in {UserPreferenceInit(maps, provider, itemOrder, order)} :
                         /\ heap = init.st.heap
                         /\ services = init.st.services
                         /\ preferences = init.st.preferences
                         /\ service_names = init.st.service_names
                         /\ entry_maps = init.maps
    /\ last = [op |-> "__init__", service |-> None, value |-> None,
               result |-> "ok", visited |-> <<>>, ret |-> <<>>]
    /\ targeted = {}
    /\ ncalls = 0

\* A call is made: the model stops after MaxCalls of them.
Call ==
    /\ ncalls < MaxCalls
    /\ ncalls' = ncalls + 1

\* The store after a setter returned or raised.
Becomes(r, op, service, value) ==
    /\ heap' = r.st.heap
    /\ services' = r.st.services
    /\ preferences' = r.st.preferences
    /\ service_names' = r.st.service_names
    /\ last' = [op |-> op, service |-> service, value |-> value,
                result |-> r.result, visited |-> r.visited, ret |-> <<>>]
    /\ targeted' = targeted \cup
                       (IF service = ALL THEN Range(service_names) ELSE {service})
    /\ UNCHANGED <<entry_maps, provVars>>

SetName ==
    /\ Call
    /\ \E service \in Selectors, name \in Values :
        Becomes(set_name(Store, service, name), "set_name", service, name)

SetRegion ==
    /\ Call
    /\ \E service \in Selectors, region \in Values :
        Becomes(set_region(Store, service, region), "set_region", service, region)

SetVersion ==
    /\ Call
    /\ \E service \in Selectors, version \in Values :
        Becomes(set_version(Store, service, version), "set_version", service, version)

SetVisibility ==
    /\ Call
    /\ \E service \in Selectors, visibility \in VisibilityArgs :
        Becomes(set_visibility(Store, service, visibility),
                "set_visibility", service, visibility)

GetPreference ==
    /\ Call
    /\ \E service \in Selectors :
        LET r == get_preference(Store, service)
        IN  /\ last' = [op |-> "get_preference", service |-> service,
                        value |-> None,
                        result |-> IF r.raised THEN "SDKException"
                                   ELSE IF r.serv = None THEN "None"
                                   ELSE "descriptor",
                        visited |-> <<>>,
                        ret |-> IF r.serv = None THEN <<>> ELSE <<r.serv>>]
            /\ UNCHANGED <<heap, services, preferences, service_names, targeted,
                         entry_maps, provVars>>

GetServices ==
    /\ Call
    /\ \E order \in Permutations_(DOMAIN services) :
        /\ last' = [op |-> "get_services", service |-> None, value |-> None,
                    result |-> "list", visited |-> <<>>,
                    ret |-> get_services(Store, order)]
        /\ UNCHANGED <<heap, services, preferences, service_names, targeted,
                         entry_maps, provVars>>

Next ==
    \/ SetName
    \/ SetRegion
    \/ SetVersion
    \/ SetVisibility
    \/ GetPreference
    \/ GetServices

Spec == Init /\ [][Next]_vars

-----------------------------------------------------------------------------
(* The state machine of the provider classes: class statements that run    *)
(* the metaclass, and accesses to a MultiProvider of the classes defined.  *)

\* The number of provider classes a run defines beside those of the module.
MaxClasses == 1

\* The number of members of a MultiProvider.
MaxProviders == 2

UserClassNames == {"P" \o ToString(i) : i \in 1..MaxClasses}

\* The bodies of the class statements of a run: no attribute, or one role
\* bound to a plugin class or to None.
ClassBodies ==
    {EmptyMap}
    \cup {[n \in {"auth"} |-> v] : v \in {"AuthV2", None}}
    \cup {[n \in {"compute"} |-> v] : v \in {"ComputeService", None}}
    \cup {[n \in {"identity"} |-> v] : v \in {"AcmeIdentity", None}}

\* The names looked up on a MultiProvider.
LookupNames == DOMAIN BaseProviderAttrs

\* The provider argument that is the provider class cls.
ProviderClassArg(cls) ==
    [kind |-> "class", dist |-> None, items |-> EmptyMap, cls |-> cls]

\* The lists of at most n members, each member once.
MemberLists(S, n) ==
    UNION {{p \in [1..k -> S] : \A i, j \in 1..k : p[i] = p[j] => i = j} : k \in 0..n}

InitProviders ==
    /\ classes = BuiltinClasses
    /\ multi = NoMultiProvider
    /\ lookup = NoLookup
    /\ LET init == UserPreferenceInit(
                       InitialEntryMaps,
                       [kind |-> "none", dist |-> None, items |-> EmptyMap],
                       <<>>,
                       sorted(DOMAIN InitialEntryMaps[SdkDist]))
       IN  /\ heap = init.st.heap
           /\ services = init.st.services
           /\ preferences = init.st.preferences
           /\ service_names = init.st.service_names
           /\ entry_maps = init.maps
    /\ last = [op |-> "__init__", service |-> None, value |-> None,
               result |-> "ok", visited |-> <<>>, ret |-> <<>>]
    /\ targeted = {}
    /\ ncalls = 0

\* class P(base): body, with ProviderMeta as the metaclass.  The classes
\* are defined before the MultiProvider that is made of them.
DefineClass ==
    /\ ~multi.made
    /\ Cardinality(DOMAIN classes \cap UserClassNames) < MaxClasses
    /\ \E base \in {"object", "BaseProvider"} \cup (DOMAIN classes \cap UserClassNames),
          body \in ClassBodies :
          LET cname == "P" \o ToString(Cardinality(DOMAIN classes \cap UserClassNames) + 1)
              bases == IF base = "object" THEN <<>> ELSE <<base>>
          IN  classes' = DictSet(classes, cname, ProviderMetaNew(classes, bases, body))
    /\ UNCHANGED <<multi, lookup, storeVars>>

\* MultiProvider.__init__(*providers)
NewMultiProvider ==
    /\ ~multi.made
    /\ \E providers \in MemberLists(DOMAIN classes, MaxProviders) :
          multi' = [made |-> TRUE, providers |-> providers]
    /\ UNCHANGED <<classes, lookup, storeVars>>

\* MultiProvider.__getattr__(name)
GetRole ==
    /\ multi.made
    /\ \E name \in LookupNames :
          LET r == MultiProviderGetAttr(classes, multi.providers, name)
          IN  lookup' = [op |-> "getattr", name |-> name, raised |-> r.raised,
                         item |-> r.item, names |-> {}]
    /\ UNCHANGED <<classes, multi, storeVars>>

\* MultiProvider.plugin_names
GetPluginNames ==
    /\ multi.made
    /\ lookup' = [op |-> "plugin_names", name |-> None, raised |-> FALSE,
                  item |-> None,
                  names |-> MultiProviderPluginNames(classes, multi.providers)]
    /\ UNCHANGED <<classes, multi, storeVars>>

NextProviders ==
    \/ DefineClass
    \/ NewMultiProvider
    \/ GetRole
    \/ GetPluginNames

SpecProviders == InitProviders /\ [][NextProviders]_vars

-----------------------------------------------------------------------------
(* The state machine of the constructions of a process: provider classes   *)
(* are defined and stores are constructed, from the provider arguments the *)
(* constructor handles and from provider classes.  The store of the state  *)
(* is the one constructed last.                                            *)

\* The provider arguments of the constructions: None, a distribution name,
\* or a dict of at most one item.
ConstructArgs ==
    {p \in ProviderArgs : Cardinality(DOMAIN p.items) <= 1}

\* UserPreference(provider) is evaluated in the process.  A construction
\* that raises makes no store: the store of the state stays, the cached
\* entry maps are as the construction left them.
Constructed(provider, itemOrder, value) ==
    /\ \E ps \in {ProviderServices(entry_maps, provider, itemOrder)} :
        \E order \in IF ps.raised THEN {<<>>}
                     ELSE Permutations_(DOMAIN ps.maps[SdkDist]) :
          \E init \in {UserPreferenceInit(entry_maps, provider, itemOrder, order)} :
            LET st == IF init.raised THEN Store ELSE init.st
            IN  /\ heap' = st.heap
                /\ services' = st.services
                /\ preferences' = st.preferences
                /\ service_names' = st.service_names
                /\ entry_maps' = init.maps
                /\ last' = [op |-> "__init__", service |-> None, value |-> value,
                            result |-> IF init.raised THEN init.error ELSE "ok",
                            visited |-> <<>>, ret |-> <<>>]
    /\ UNCHANGED <<targeted, ncalls, provVars>>

\* UserPreference(provider) with None, a distribution name or a dict.
Construct ==
    \E provider \in ConstructArgs :
        \E itemOrder \in Permutations_(DOMAIN provider.items) :
            Constructed(provider, itemOrder, None)

\* UserPreference(provider) with a provider class as the argument.
ConstructFrom ==
    \E cls \in DOMAIN classes : Constructed(ProviderClassArg(cls), <<>>, cls)

NextConstruct ==
    \/ Construct
    \/ ConstructFrom
    \/ DefineClass

SpecConstruct == InitProviders /\ [][NextConstruct]_vars


-----------------------------------------------------------------------------
(* Properties of the store.                                                *)

SetterOps == {"set_name", "set_region", "set_version", "set_visibility"}

\* The map part of the store: what a caller can tell two stores apart by.
StoreUnchanged == UNCHANGED <<heap, services, preferences, service_names>>

\* C1: a setter call whose selector is neither ALL nor a key of services
\* fails with the unknown-service error (SDKException in the source) and
\* leaves preferences, services and every descriptor as they were.
C1_UnknownKeyFailsBeforeMutation ==
    [][(/\ last'.op \in SetterOps
        /\ last'.service # ALL
        /\ last'.service \notin DOMAIN services)
       => (/\ last'.result = "SDKException"
           /\ StoreUnchanged)]_vars

\* A setter was called with an unknown key on a store that has preferences.
C1_Witness ==
    /\ last.op \in SetterOps
    /\ last.service = "bogus"
    /\ last.result = "SDKException"
    /\ DOMAIN preferences # {}

\* C2: a service type that no setter call was aimed at, neither by its key
\* nor by the wildcard, has no preference.
C2_AbsentUntilTouched ==
    \A s \in DOMAIN services :
        s \notin targeted => get_preference(Store, s).serv = None

\* Calls were made, one of them a setter on one service, and another
\* service is still without a preference.
C2_Witness ==
    /\ ncalls >= 2
    /\ \E s, t \in DOMAIN services :
        /\ s \in targeted /\ get_preference(Store, s).serv # None
        /\ t \notin targeted /\ get_preference(Store, t).serv = None

\* C3: after set_name(ALL, x) every service of service_names has a
\* preference and its service_name is x.
C3_SetNameAll ==
    (last.op = "set_name" /\ last.service = ALL)
    => /\ last.result = "ok"
       /\ \A i \in 1..Len(service_names) :
            LET r == get_preference(Store, service_names[i])
            IN  /\ ~r.raised
                /\ r.serv # None
                /\ heap[r.serv].service_name = last.value

\* set_name(ALL, "x") was the third call of a store.
C3_Witness ==
    /\ last.op = "set_name" /\ last.service = ALL /\ last.value = "x"
    /\ ncalls = 3
    /\ Len(service_names) = 3
    /\ \A s \in DOMAIN services : heap[services[s]].service_name = "x"

\* C4: a setter call on one known service leaves every other service's
\* descriptor and its membership in preferences as they were.
C4_SingleSetterFrame ==
    [][(/\ last'.op \in SetterOps
        /\ last'.service \in DOMAIN services)
       => \A t \in DOMAIN services \ {last'.service} :
            /\ t \in DOMAIN services'
            /\ services'[t] = services[t]
            /\ heap'[services'[t]] = heap[services[t]]
            /\ (t \in DOMAIN preferences') = (t \in DOMAIN preferences)]_vars

\* set_region("compute", "x") was called and took effect while another
\* service keeps a region of its own and a third has no preference.
C4_Witness ==
    /\ last.op = "set_region" /\ last.service = "compute" /\ last.value = "x"
    /\ heap[services["compute"]].region = "x"
    /\ "identity" \in DOMAIN preferences
    /\ heap[services["identity"]].region = None
    /\ "network" \notin DOMAIN preferences

\* C5: the keys of preferences are keys of services.
C5_PreferencesSubset == DOMAIN preferences \subseteq DOMAIN services

\* Some services have preferences, some have none, and the last call was a
\* setter that failed on an unknown key.
C5_Witness ==
    /\ last.op \in SetterOps /\ last.result = "SDKException"
    /\ DOMAIN preferences # {}
    /\ DOMAIN preferences # DOMAIN services

\* The positions of service_names whose descriptor rejects the value of a
\* set_visibility call.
Rejecting(value) ==
    {i \in 1..Len(service_names) :
        FilterSetVisibility(heap[services[service_names[i]]], value).raised}

Min(S) == CHOOSE i \in S : \A j \in S : i <= j

\* C6: when the descriptor of the k-th service of service_names rejects the
\* value of a wildcard set_visibility, the call fails, the services before
\* the k-th have the value and a preference, and the services after it are
\* as they were.
C6_WildcardNotAtomic ==
    [][(/\ last'.op = "set_visibility"
        /\ last'.service = ALL
        /\ Rejecting(last'.value) # {})
       => LET k == Min(Rejecting(last'.value))
          IN  /\ last'.result = "ValidationError"
              /\ \A i \in 1..(k - 1) :
                    LET s == service_names[i]
                    IN  /\ s \in DOMAIN preferences'
                        /\ heap'[services'[s]].visibility = last'.value
              /\ \A i \in (k + 1)..Len(service_names) :
                    LET s == service_names[i]
                    IN  /\ heap'[services'[s]] = heap[services[s]]
                        /\ (s \in DOMAIN preferences') = (s \in DOMAIN preferences)]_vars

\* set_visibility(ALL, "internal") failed at the second of three services:
\* the first has the value, the third has no preference.
C6_Witness ==
    /\ last.op = "set_visibility" /\ last.service = ALL
    /\ last.value = "internal"
    /\ last.result = "ValidationError"
    /\ Len(service_names) = 3
    /\ heap[services[service_names[1]]].visibility = "internal"
    /\ service_names[1] \in DOMAIN preferences
    /\ heap[services[service_names[2]]].visibility # "internal"
    /\ service_names[3] \notin DOMAIN preferences

\* C7, as claimed: get_preference with a key that is not in services fails
\* with the error the setters raise.
C7_GetPreferenceRaises ==
    (last.op = "get_preference" /\ last.service \notin DOMAIN services)
    => last.result = "SDKException"

\* C7, amended: get_preference with a key that is not in services raises
\* nothing and returns None.
C7_GetPreferenceUnknownIsNone ==
    (last.op = "get_preference" /\ last.service \notin DOMAIN services)
    => (last.result = "None" /\ last.ret = <<>>)

\* get_preference("bogus") was called on a store that has preferences.
C7_Witness ==
    /\ last.op = "get_preference" /\ last.service = "bogus"
    /\ last.result = "None"
    /\ DOMAIN preferences # {}

\* Two entry points of the store made descriptors of one service type.
Collision ==
    \E r1, r2 \in DOMAIN heap :
        r1 # r2 /\ heap[r1].service_type = heap[r2].service_type

\* C8, as claimed: the construction of a store from entry points that
\* collide on a service type fails.
C8_CollisionRejected ==
    (last.op = "__init__" /\ Collision) => last.result # "ok"

-----------------------------------------------------------------------------
(* Properties of the providers.                                            *)

\* A member defines a role when what it gives for the role's name, from its
\* own body or from a base, is a value other than None.
Defines(reg, cls, name) == getattr(reg, cls, name) # None

\* The positions of the MultiProvider's members that define the name.
Defining(name) ==
    {i \in 1..Len(multi.providers) : Defines(classes, multi.providers[i], name)}

\* C9: a lookup on a MultiProvider returns the binding of the first member,
\* in the order given, that defines the role, and fails with AttributeError
\* exactly when no member defines it.
C9_FirstMemberWins ==
    lookup.op = "getattr"
    => /\ lookup.raised <=> (Defining(lookup.name) = {})
       /\ Defining(lookup.name) # {}
          => lookup.item =
                getattr(classes, multi.providers[Min(Defining(lookup.name))], lookup.name)

\* MultiProvider(A, B).identity with identity undefined in A and defined in
\* B returned B's binding.
C9_Witness ==
    /\ lookup.op = "getattr" /\ lookup.name = "identity"
    /\ Len(multi.providers) = 2
    /\ ~Defines(classes, multi.providers[1], "identity")
    /\ Defines(classes, multi.providers[2], "identity")
    /\ ~lookup.raised
    /\ lookup.item = getattr(classes, multi.providers[2], "identity")

\* A class with a base whose body binds the auth role and nothing else.
OverridesOnlyAuth(reg, cls) ==
    /\ reg[cls].bases # <<>>
    /\ DOMAIN reg[cls].attrs = {"auth"}

\* C10, as claimed: a class that overrides only the auth role gives for
\* every other role what its base gives, and the store constructed from it
\* is the store constructed from its base: both constructions succeed and
\* give the same services and descriptors, one for each role but auth.
C10_AuthOverrideSameStore ==
    \A d \in DOMAIN classes :
        (last.op = "__init__" /\ last.value = d /\ OverridesOnlyAuth(classes, d))
        => LET b == classes[d].bases[1]
           IN  /\ \A r \in LookupNames \ {"auth"} :
                     getattr(classes, d, r) = getattr(classes, b, r)
               /\ classes[d].plugin_names \ {"auth"} = classes[b].plugin_names \ {"auth"}
               /\ \A order \in Permutations_(DOMAIN entry_maps[SdkDist]) :
                     LET fromD == UserPreferenceInit(entry_maps, ProviderClassArg(d),
                                                     <<>>, order)
                         fromB == UserPreferenceInit(entry_maps, ProviderClassArg(b),
                                                     <<>>, order)
                     IN  /\ ~fromD.raised
                         /\ ~fromB.raised
                         /\ fromD.st = fromB.st
               /\ last.result = "ok"
               /\ DOMAIN services = classes[b].plugin_names \ {"auth"}

-----------------------------------------------------------------------------
(* Further properties of the store.                                        *)

\* C11: set_version(s, v) on a known s succeeds and leaves version v in
\* s's preference; the same call made again changes nothing: neither when
\* it is applied to the store the call left, nor when the call before it
\* was the same call.
C11_SetVersionIdempotent ==
    [][(/\ last'.op = "set_version"
        /\ last'.service \in DOMAIN services)
       => LET s == last'.service
              v == last'.value
              again == set_version(Store', s, v)
          IN  /\ last'.result = "ok"
              /\ get_preference(Store', s).serv # None
              /\ heap'[get_preference(Store', s).serv].version = v
              /\ again.result = "ok"
              /\ again.st = Store'
              /\ (last.op = "set_version" /\ last.service = s /\ last.value = v)
                 => StoreUnchanged]_vars

\* set_version("identity", "x") was made on a store whose only earlier
\* call was aimed at identity too.
C11_Witness ==
    /\ last.op = "set_version" /\ last.service = "identity" /\ last.value = "x"
    /\ last.result = "ok"
    /\ ncalls = 2
    /\ targeted = {"identity"}
    /\ heap[services["identity"]].version = "x"
    /\ heap[services["identity"]].service_name = None
    /\ heap[services["identity"]].region = None

\* C12, as claimed: after construction every descriptor made for an entry
\* point is in services under its own service_type, its visibility is
\* unset, and preferences is empty.
C12_OneDescriptorPerRole ==
    last.op = "__init__"
    => /\ \A role \in DOMAIN heap :
            /\ heap[role].service_type \in DOMAIN services
            /\ services[heap[role].service_type] = role
            /\ heap[role].visibility = None
       /\ Cardinality(DOMAIN services) = Cardinality(DOMAIN heap)
       /\ preferences = EmptyMap

\* C13: get_services returns each descriptor of services once and nothing
\* else, whether or not the descriptor has a preference.
C13_GetServicesComplete ==
    last.op = "get_services"
    => /\ Len(last.ret) = Cardinality(DOMAIN services)
       /\ \A s \in DOMAIN services :
            Cardinality({i \in 1..Len(last.ret) : last.ret[i] = services[s]}) = 1
       /\ \A i \in 1..Len(last.ret) : last.ret[i] \in Range(services)

\* get_services was called on a store in which a descriptor was created
\* and dropped, one service has a preference and another has none.
C13_Witness ==
    /\ last.op = "get_services"
    /\ Len(last.ret) = 3
    /\ Cardinality(DOMAIN heap) = 4
    /\ DOMAIN preferences # {}
    /\ DOMAIN preferences # DOMAIN services

\* service_names lists exactly the keys of services, in ascending order and
\* without duplicates.
SortedKeys ==
    /\ Range(service_names) = DOMAIN services
    /\ \A i, j \in 1..Len(service_names) :
            i < j => StrLess(service_names[i], service_names[j])

\* C15: no operation changes the keys of services or what they map to, and
\* service_names is always the sorted list of exactly those keys.
C15_ServicesFixed ==
    /\ []SortedKeys
    /\ [][services' = services /\ service_names' = service_names]_vars

\* Setters, one of them failing, ran on a store of three services.
C15_Witness ==
    /\ ncalls = 3
    /\ last.op \in SetterOps /\ last.result # "ok"
    /\ DOMAIN preferences # {}
    /\ Len(service_names) = 3

\* C16: a wildcard setter call that completes ran its loop body for the
\* keys of service_names in ascending order, once for each, and for no
\* other key; each service has the value and a preference.
C16_WildcardVisitsSorted ==
    (last.op \in SetterOps /\ last.service = ALL /\ last.result = "ok")
    => /\ last.visited = service_names
       /\ \A i, j \in 1..Len(last.visited) :
            i < j => StrLess(last.visited[i], last.visited[j])
       /\ Range(last.visited) = DOMAIN services
       /\ \A s \in DOMAIN services : s \in DOMAIN preferences

\* set_region(ALL, "x") completed on a store of three services.
C16_Witness ==
    /\ last.op = "set_region" /\ last.service = ALL /\ last.value = "x"
    /\ last.result = "ok"
    /\ Len(last.visited) = 3
    /\ \A s \in DOMAIN services : heap[services[s]].region = "x"

\* C17, as claimed: a set_visibility call on a known service that fails
\* because the descriptor rejects the value leaves preferences as it was.
C17_FailedSetterLeavesPreferences ==
    [][(/\ last'.op = "set_visibility"
        /\ last'.service \in DOMAIN services
        /\ last'.result = "ValidationError")
       => preferences' = preferences]_vars

\* A successful setter call on one service or on all.
Succeeded(l) == l.op \in SetterOps /\ l.result = "ok"

\* C18: after a setter call aimed at a known service returned, the service
\* has its descriptor as preference, whatever the value was; and a service
\* that has a preference keeps it in every later step.
C18_TouchedStaysTouched ==
    [][/\ Succeeded(last')
          => \A s \in DOMAIN services :
                (last'.service = s \/ last'.service = ALL)
                => /\ get_preference(Store', s).serv = services[s]
                   /\ heap'[services[s]][
                        CASE last'.op = "set_name" -> "service_name"
                          [] last'.op = "set_region" -> "region"
                          [] last'.op = "set_version" -> "version"
                          [] last'.op = "set_visibility" -> "visibility"] = last'.value
       /\ \A s \in DOMAIN preferences :
            /\ s \in DOMAIN preferences'
            /\ preferences'[s] = preferences[s]]_vars

\* set_name("compute", None) returned on a store where compute had no
\* preference and no name: compute now has a preference, its name is None.
C18_Witness ==
    /\ last.op = "set_name" /\ last.service = "compute" /\ last.value = None
    /\ last.result = "ok"
    /\ targeted = {"compute"}
    /\ "compute" \in DOMAIN preferences
    /\ heap[preferences["compute"]].service_name = None

\* C19: a preference is the very descriptor services holds under the same
\* key, and the descriptor's service_type is that key.
C19_PreferencesAliasServices ==
    /\ \A k \in DOMAIN preferences :
        /\ k \in DOMAIN services
        /\ preferences[k] = services[k]
    /\ \A k \in DOMAIN services : heap[services[k]].service_type = k

\* A store built from colliding entry points in which the service type of
\* the collision has a preference with a name.
C19_Witness ==
    /\ \E r1, r2 \in DOMAIN heap :
        r1 # r2 /\ heap[r1].service_type = heap[r2].service_type
    /\ "compute" \in DOMAIN preferences
    /\ heap[preferences["compute"]].service_name = "x"
    /\ services["compute"] = "compute_v2"

-----------------------------------------------------------------------------
(* Further properties of the providers.                                    *)

\* C14: plugin_names of a MultiProvider has a name exactly when a member's
\* plugin_names has it.
C14_PluginNamesUnion ==
    lookup.op = "plugin_names"
    => \A n \in LookupNames \cup lookup.names :
            n \in lookup.names
            <=> \E i \in 1..Len(multi.providers) :
                    n \in classes[multi.providers[i]].plugin_names

\* plugin_names was read from a MultiProvider of two members whose names
\* differ and overlap.
C14_Witness ==
    /\ lookup.op = "plugin_names"
    /\ Len(multi.providers) = 2
    /\ LET a == classes[multi.providers[1]].plugin_names
           b == classes[multi.providers[2]].plugin_names
       IN  /\ a \cap b # {}
           /\ b \ a # {}
           /\ lookup.names = a \cup b

\* C20, as claimed: the lookup of a name that plugin_names of the
\* MultiProvider lists does not fail.
C20_PluginNamesResolve ==
    (/\ lookup.op = "getattr"
     /\ lookup.name \in MultiProviderPluginNames(classes, multi.providers))
    => ~lookup.raised
=============================================================================
